---- MODULE Spec2Model ----
(***************************************************************************)
(* Tenant_Rent_App_2: the SQLite store of app.py (tenants, units,          *)
(* invoices, payments), the form handlers of the Streamlit tabs that       *)
(* mutate it, and the ledger computation of the Ledger tab.                *)
(*                                                                         *)
(* Every Streamlit session runs the script in its own thread with its own  *)
(* connection.  A script run first reads the rows a form offers (the       *)
(* pd.read_sql_query above the form) and later, in the submit handler,     *)
(* writes with the values taken from that read.  The read and the handler  *)
(* are separate steps of a session, so that another session's handler may  *)
(* commit between them.  A handler is one step: all its run_query calls    *)
(* in order, each committed on its own.                                    *)
(*                                                                         *)
(* db() opens a connection per call and nothing closes it.  A connection   *)
(* whose statement failed on a constraint keeps its open transaction, and  *)
(* with it the write lock of the database file, until the garbage          *)
(* collector frees it; until then every other write fails with "database   *)
(* is locked".  When the collector runs is not determined by the program.  *)
(*                                                                         *)
(* Amounts are integers (the REAL columns hold whole rupees here); dates   *)
(* are calendar dates <<y, m, d>> that the sqlite3 date adapter stores as  *)
(* ISO text, modelled as the sequence of character codes.                  *)
(***************************************************************************)
EXTENDS Integers, Sequences, FiniteSets, TLC

\* ---------------------------------------------------------------- bounds
MaxTenants == 2
MaxUnits == 2
MaxInvoices == 2
MaxRows == 3

Sessions == {1, 2}
Codes == {"101", "102"}
Names == {"", "Asha"}
Amounts == {3000, 5000}
Dates == {<<2024, 1, 5>>, <<2024, 1, 6>>, <<2024, 1, 10>>}
\* what the invoice form is submitted with
RentAmounts == {5000}
DueDates == {<<2024, 1, 5>>}
Description == "Monthly Rent"

NULL == 0

VARIABLES tenants, nextTenant, units, invoices, nextInvoice, payments,
          nextPayment, locked, form, last, ledger

vars == <<tenants, nextTenant, units, invoices, nextInvoice, payments,
          nextPayment, locked, form, last, ledger>>

store == <<tenants, nextTenant, units, invoices, nextInvoice, payments,
           nextPayment, locked>>

\* ------------------------------------------------------- dates as ISO text
Digit(k) == 48 + k
Dash == 45

\* sqlite3's default adapter: datetime.date -> 'YYYY-MM-DD'
IsoFormat(d) ==
    << Digit(d[1] \div 1000), Digit((d[1] \div 100) % 10),
       Digit((d[1] \div 10) % 10), Digit(d[1] % 10), Dash,
       Digit(d[2] \div 10), Digit(d[2] % 10), Dash,
       Digit(d[3] \div 10), Digit(d[3] % 10) >>

\* comparison of two str objects, as sort_values compares the Date column
RECURSIVE StrLess(_, _)
StrLess(a, b) ==
    IF b = << >> THEN FALSE
    ELSE IF a = << >> THEN TRUE
    ELSE IF Head(a) # Head(b) THEN Head(a) < Head(b)
    ELSE StrLess(Tail(a), Tail(b))

\* ------------------------------------------------------------ form values
NoForm == [kind |-> "none", unit |-> 0, tenant |-> 0, inv |-> 0]
MkForm(k, u, t, i) == [kind |-> k, unit |-> u, tenant |-> t, inv |-> i]

\* what the last script step was and which st.error / st.success it showed
MkLast(op, msgs) == [op |-> op, msgs |-> msgs]
Rendered == MkLast("Render", {})

NoLedger == [tenant |-> 0, lines |-> << >>, total |-> 0]

\* ---------------------------------------------------------------- run_query
\* run_query: the statement either commits, or the exception is caught,
\* st.error("Database Error: ...") is shown and None is returned.
RunQueryMsgs(ok) == IF ok THEN {} ELSE {"DatabaseError"}

\* cur.execute(sql, params): one binding per "?" of the statement
BindOk(markers, params) == Len(params) = markers

\* a connection that leaves foreign-key enforcement at SQLite's default (off)
TenantFKOff(t) == TRUE

\* FOREIGN KEY(... tenant_id) REFERENCES tenants(id), PRAGMA foreign_keys=ON
TenantFKOk(t) == t = NULL \/ t \in tenants

\* FOREIGN KEY(unit_id) REFERENCES units(id)
UnitFKOk(u) == u = NULL \/ u \in DOMAIN units

\* a units table whose code column is not UNIQUE
UniqueCodeOff(c) == TRUE

\* code TEXT UNIQUE NOT NULL
UniqueCodeOk(c) == \A i \in DOMAIN units : units[i].code # c

\* DELETE FROM tenants WHERE id=d is refused while a child row references d
DeleteFKOk(d, us, invs, pays) ==
    /\ \A i \in DOMAIN us : us[i].tenant # d
    /\ \A r \in invs : r.tenant_id # d
    /\ \A r \in pays : r.tenant_id # d

\* A statement run by run_query on a fresh connection.  lk: another
\* connection still holds the write lock; bind: the parameters fit the
\* markers; cons: no constraint refuses the statement.  A binding error is
\* raised before the statement runs.  "database is locked" and a constraint
\* failure are raised by the statement; after a constraint failure the
\* connection, never closed nor rolled back, keeps the write lock.
Stmt(lk, bind, cons) ==
    [ok |-> bind /\ ~lk /\ cons,
     lock |-> IF bind THEN lk \/ ~cons ELSE lk]

\* the lock a statement can meet: the connection holding it is freed whenever
\* the garbage collector gets to it
Seen(lk) == IF lk THEN {TRUE, FALSE} ELSE {FALSE}

Init ==
    /\ tenants = {}
    /\ nextTenant = 1
    /\ units = << >>
    /\ invoices = {}
    /\ nextInvoice = 1
    /\ payments = {}
    /\ nextPayment = 1
    /\ locked = FALSE
    /\ form = [s \in Sessions |-> NoForm]
    /\ last = Rendered
    /\ ledger = NoLedger

\* ------------------------------------------------------------- Units tab
\* "Add Unit": INSERT INTO units (code, floor, rent_amount); status defaults
\* to 'vacant', current_tenant_id to NULL.  "Unit Added!" is shown whatever
\* run_query returned.
CreateUnit(c) ==
    /\ Len(units) < MaxUnits
    /\ \E lk \in Seen(locked) :
       LET r == Stmt(lk, TRUE, UniqueCodeOk(c)) IN
       /\ units' = IF r.ok
                   THEN Append(units, [code |-> c, status |-> "vacant",
                                       tenant |-> NULL])
                   ELSE units
       /\ locked' = r.lock
       /\ last' = MkLast("CreateUnit", RunQueryMsgs(r.ok) \cup {"success"})
    /\ UNCHANGED <<tenants, nextTenant, invoices, nextInvoice, payments,
                   nextPayment, form, ledger>>

\* ----------------------------------------------------------- Tenants tab
\* "Create Profile": a blank name shows "Name required" and writes nothing.
CreateTenant(n) ==
    /\ nextTenant <= MaxTenants
    /\ IF n # ""
       THEN \E lk \in Seen(locked) :
            LET r == Stmt(lk, TRUE, TRUE) IN
            /\ tenants' = IF r.ok THEN tenants \cup {nextTenant} ELSE tenants
            /\ nextTenant' = IF r.ok THEN nextTenant + 1 ELSE nextTenant
            /\ locked' = r.lock
            /\ last' = MkLast("CreateTenant",
                              RunQueryMsgs(r.ok) \cup {"success"})
       ELSE /\ UNCHANGED <<tenants, nextTenant, locked>>
            /\ last' = MkLast("CreateTenant", {"NameRequired"})
    /\ UNCHANGED <<units, invoices, nextInvoice, payments, nextPayment, form,
                   ledger>>

\* vacant_units / all_tenants are read and the two selectboxes take a value
RenderAssign(s) ==
    /\ \E u \in {i \in DOMAIN units : units[i].status = "vacant"} :
       \E t \in tenants :
          form' = [form EXCEPT ![s] = MkForm("assign", u, t, 0)]
    /\ last' = Rendered
    /\ UNCHANGED <<store, ledger>>

\* "Assign & Move In": UPDATE units SET status='occupied',
\* current_tenant_id=? WHERE id=?  -- no condition on the current status.
AssignTenant(s) ==
    /\ form[s].kind = "assign"
    /\ \E lk \in Seen(locked) :
       LET u == form[s].unit
           t == form[s].tenant
           r == Stmt(lk, TRUE, TenantFKOk(t)) IN
       /\ units' = IF r.ok
                   THEN [units EXCEPT ![u] = [@ EXCEPT !.status = "occupied",
                                                       !.tenant = t]]
                   ELSE units
       /\ locked' = r.lock
       /\ last' = MkLast("AssignTenant", RunQueryMsgs(r.ok) \cup {"success"})
    /\ form' = [form EXCEPT ![s] = NoForm]
    /\ UNCHANGED <<tenants, nextTenant, invoices, nextInvoice, payments,
                   nextPayment, ledger>>

\* tenants_to_delete is read and the selectbox takes a value
RenderDelete(s) ==
    /\ \E t \in tenants : form' = [form EXCEPT ![s] = MkForm("delete", 0, t, 0)]
    /\ last' = Rendered
    /\ UNCHANGED <<store, ledger>>

\* UPDATE units SET status='vacant', current_tenant_id=NULL
\* WHERE current_tenant_id=?
Vacate(us, d) ==
    [i \in DOMAIN us |->
        IF us[i].tenant = d
        THEN [us[i] EXCEPT !.status = "vacant", !.tenant = NULL]
        ELSE us[i]]

\* "Delete Tenant": the three steps, each its own run_query; run_query never
\* raises, so the except branch is not reached and "Tenant deleted." is shown.
DeleteTenant(s, cascade) ==
    /\ form[s].kind = "delete"
    /\ \E lk1 \in Seen(locked) :
       \* 1. vacate
       LET d == form[s].tenant
           r1 == Stmt(lk1, TRUE, TRUE)
           us == IF r1.ok THEN Vacate(units, d) ELSE units
       IN
       \* 2. the financial history, if the box is checked
       \E lk2 \in IF cascade THEN Seen(r1.lock) ELSE {r1.lock} :
       LET r2 == IF cascade THEN Stmt(lk2, TRUE, TRUE)
                 ELSE [ok |-> TRUE, lock |-> lk2]
           invs == IF cascade /\ r2.ok THEN {r \in invoices : r.tenant_id # d}
                   ELSE invoices
       IN
       \E lk3 \in IF cascade THEN Seen(r2.lock) ELSE {r2.lock} :
       LET r3 == IF cascade THEN Stmt(lk3, TRUE, TRUE)
                 ELSE [ok |-> TRUE, lock |-> lk3]
           pays == IF cascade /\ r3.ok THEN {r \in payments : r.tenant_id # d}
                   ELSE payments
       IN
       \* 3. the tenant profile
       \E lk4 \in Seen(r3.lock) :
       LET r4 == Stmt(lk4, TRUE, DeleteFKOk(d, us, invs, pays)) IN
       /\ units' = us
       /\ invoices' = invs
       /\ payments' = pays
       /\ tenants' = IF r4.ok THEN tenants \ {d} ELSE tenants
       /\ locked' = r4.lock
       /\ last' = MkLast("DeleteTenant",
                         RunQueryMsgs(r1.ok /\ r2.ok /\ r3.ok /\ r4.ok)
                             \cup {"success"})
    /\ form' = [form EXCEPT ![s] = NoForm]
    /\ UNCHANGED <<nextTenant, nextInvoice, nextPayment, ledger>>

\* ---------------------------------------------------------- Invoices tab
\* occupied: units JOIN tenants ON current_tenant_id WHERE status='occupied'
RenderInvoice(s) ==
    /\ \E u \in {i \in DOMAIN units : /\ units[i].status = "occupied"
                                      /\ units[i].tenant \in tenants} :
          form' = [form EXCEPT ![s] = MkForm("invoice", u, units[u].tenant, 0)]
    /\ last' = Rendered
    /\ UNCHANGED <<store, ledger>>

\* "Create Invoice": INSERT with the unit id and tenant id of selected_row
CreateInvoice(s, a, d) ==
    /\ form[s].kind = "invoice"
    /\ nextInvoice <= MaxInvoices
    /\ \E lk \in Seen(locked) :
       LET r == Stmt(lk, TRUE,
                     UnitFKOk(form[s].unit) /\ TenantFKOk(form[s].tenant)) IN
       /\ invoices' = IF r.ok
                      THEN invoices \cup
                           {[id |-> nextInvoice, unit_id |-> form[s].unit,
                             tenant_id |-> form[s].tenant, amount |-> a,
                             description |-> Description,
                             status |-> "unpaid", due_date |-> IsoFormat(d)]}
                      ELSE invoices
       /\ nextInvoice' = IF r.ok THEN nextInvoice + 1 ELSE nextInvoice
       /\ locked' = r.lock
       /\ last' = MkLast("CreateInvoice", RunQueryMsgs(r.ok) \cup {"success"})
    /\ form' = [form EXCEPT ![s] = NoForm]
    /\ UNCHANGED <<tenants, nextTenant, units, payments, nextPayment, ledger>>

\* ---------------------------------------------------------- Payments tab
\* unpaid: invoices JOIN units JOIN tenants WHERE i.status='unpaid'
RenderPay(s) ==
    /\ \E r \in {i \in invoices : /\ i.status = "unpaid"
                                  /\ i.unit_id \in DOMAIN units
                                  /\ i.tenant_id \in tenants} :
          form' = [form EXCEPT ![s] =
                      MkForm("pay", r.unit_id, r.tenant_id, r.id)]
    /\ last' = Rendered
    /\ UNCHANGED <<store, ledger>>

\* INSERT INTO payments (tenant_id, unit_id, amount, date, method)
\* VALUES (?,?,?,?, 'Cash')
PaymentMarkers == 4
\* the tuple the handler passes: (tenant_id, unit_id, pay_amt)
PaymentParams(f, a, d) == <<f.tenant, f.unit, a>>

\* "Record Payment": the INSERT, then UPDATE invoices SET status='paid'
\* WHERE id=?, then "Payment Recorded!".
RecordPayment(s, a, d) ==
    /\ form[s].kind = "pay"
    /\ \E lk1 \in Seen(locked) :
       LET p == PaymentParams(form[s], a, d)
           r1 == Stmt(lk1, BindOk(PaymentMarkers, p),
                      TenantFKOk(p[1]) /\ UnitFKOk(p[2]))
       IN
       \E lk2 \in Seen(r1.lock) :
       LET r2 == Stmt(lk2, TRUE, TRUE) IN
       /\ payments' = IF r1.ok
                      THEN payments \cup
                           {[id |-> nextPayment, tenant_id |-> p[1],
                             unit_id |-> p[2], amount |-> p[3],
                             date |-> IsoFormat(p[4])]}
                      ELSE payments
       /\ nextPayment' = IF r1.ok THEN nextPayment + 1 ELSE nextPayment
       /\ invoices' = IF r2.ok
                      THEN {IF r.id = form[s].inv
                            THEN [r EXCEPT !.status = "paid"] ELSE r
                            : r \in invoices}
                      ELSE invoices
       /\ locked' = r2.lock
       /\ last' = MkLast("RecordPayment",
                         RunQueryMsgs(r1.ok /\ r2.ok) \cup {"success"})
    /\ form' = [form EXCEPT ![s] = NoForm]
    /\ UNCHANGED <<tenants, nextTenant, units, nextInvoice, ledger>>

\* ------------------------------------------------------------ Ledger tab
\* the rows of a table in rowid order, as SELECT without ORDER BY scans them
RECURSIVE RowsById(_)
RowsById(S) ==
    IF S = {} THEN << >>
    ELSE LET r == CHOOSE x \in S : \A y \in S : x.id <= y.id
         IN <<r>> \o RowsById(S \ {r})

\* SELECT due_date as Date, description as Item, amount as Debit, 0 as Credit
DebitLine(r) == [Date |-> r.due_date, Item |-> r.description,
                 Debit |-> r.amount, Credit |-> 0]

\* SELECT date as Date, 'Payment Received' as Item, 0 as Debit, amount as Credit
CreditLine(r) == [Date |-> r.date, Item |-> "Payment Received",
                  Debit |-> 0, Credit |-> r.amount]

MapLines(rows, isDebit) ==
    [i \in 1..Len(rows) |->
        IF isDebit THEN DebitLine(rows[i]) ELSE CreditLine(rows[i])]

\* one line put into an already sorted frame, behind the lines of its date
RECURSIVE InsertLine(_, _)
InsertLine(l, sorted) ==
    IF sorted = << >> THEN <<l>>
    ELSE IF StrLess(l.Date, Head(sorted).Date) THEN <<l>> \o sorted
    ELSE <<Head(sorted)>> \o InsertLine(l, Tail(sorted))

\* a ledger that is concatenated but not sorted
SortByDateNone(frame) == frame

\* sort_values(by="Date"): on frames this small the sort is an insertion sort
RECURSIVE SortByDate(_)
SortByDate(frame) ==
    IF frame = << >> THEN << >>
    ELSE InsertLine(frame[Len(frame)], SortByDate(SubSeq(frame, 1, Len(frame) - 1)))

\* (ledger['Debit'] - ledger['Credit']).cumsum()
RECURSIVE CumSum(_, _)
CumSum(frame, acc) ==
    IF frame = << >> THEN << >>
    ELSE LET b == acc + Head(frame).Debit - Head(frame).Credit
         IN <<[Date |-> Head(frame).Date, Item |-> Head(frame).Item,
               Debit |-> Head(frame).Debit, Credit |-> Head(frame).Credit,
               Balance |-> b]>> \o CumSum(Tail(frame), b)

\* ledger['Debit'].sum() / ledger['Credit'].sum()
RECURSIVE ColumnSum(_, _)
ColumnSum(frame, col) ==
    IF frame = << >> THEN 0
    ELSE (IF col = "Debit" THEN Head(frame).Debit ELSE Head(frame).Credit)
         + ColumnSum(Tail(frame), col)

\* debits, credits, pd.concat, sort_values, cumsum, total_due
BuildLedger(t, invs, pays) ==
    LET debits == MapLines(RowsById({r \in invs : r.tenant_id = t}), TRUE)
        credits == MapLines(RowsById({r \in pays : r.tenant_id = t}), FALSE)
        sorted == SortByDate(debits \o credits)
    IN [tenant |-> t,
        lines |-> CumSum(sorted, 0),
        total |-> ColumnSum(sorted, "Debit") - ColumnSum(sorted, "Credit")]

\* the Ledger tab for the selected tenant: the data frame and the balance,
\* "Outstanding Balance" when total_due > 0 and "Balance Cleared" otherwise
ViewLedger(t) ==
    /\ t \in tenants
    /\ ledger' = BuildLedger(t, invoices, payments)
    /\ last' = MkLast("ViewLedger",
                      IF ledger'.total > 0 THEN {"Outstanding"} ELSE {"Cleared"})
    /\ UNCHANGED <<store, form>>

\* The Ledger tab writes nothing; Spec leaves its view aside and the claims
\* about it evaluate BuildLedger on the store, or run under LedgerSpec.
Next ==
    \/ \E c \in Codes : CreateUnit(c)
    \/ \E n \in Names : CreateTenant(n)
    \/ \E s \in Sessions : RenderAssign(s)
    \/ \E s \in Sessions : AssignTenant(s)
    \/ \E s \in Sessions : RenderDelete(s)
    \/ \E s \in Sessions, cascade \in BOOLEAN : DeleteTenant(s, cascade)
    \/ \E s \in Sessions : RenderInvoice(s)
    \/ \E s \in Sessions, a \in RentAmounts, d \in DueDates :
          CreateInvoice(s, a, d)
    \/ \E s \in Sessions : RenderPay(s)
    \/ \E s \in Sessions, a \in Amounts, d \in Dates : RecordPayment(s, a, d)

Spec == Init /\ [][Next]_vars

\* ---------------------------------------------- the ledger on arbitrary rows
\* BuildLedger is a function of the invoice and payment rows alone: LedgerSpec
\* starts from any store of at most MaxRows such rows and shows the ledger.
LedgerTenants == {1, 2}

LedgerInit ==
    /\ tenants = LedgerTenants
    /\ nextTenant = 3
    /\ units = <<[code |-> "101", status |-> "occupied", tenant |-> 1]>>
    /\ \E n \in 0..MaxRows, m \in 0..MaxRows :
        /\ n + m <= MaxRows
        /\ \E f \in [1..n -> LedgerTenants \X Amounts \X Dates] :
              invoices = {[id |-> i, unit_id |-> 1, tenant_id |-> f[i][1],
                           amount |-> f[i][2], description |-> Description,
                           status |-> "unpaid",
                           due_date |-> IsoFormat(f[i][3])] : i \in 1..n}
        /\ \E g \in [1..m -> LedgerTenants \X Amounts \X Dates] :
              payments = {[id |-> i, tenant_id |-> g[i][1], unit_id |-> 1,
                           amount |-> g[i][2],
                           date |-> IsoFormat(g[i][3])] : i \in 1..m}
        /\ nextInvoice = n + 1
        /\ nextPayment = m + 1
    /\ locked = FALSE
    /\ form = [s \in Sessions |-> NoForm]
    /\ last = Rendered
    /\ ledger = NoLedger

LedgerNext == \E t \in LedgerTenants : ViewLedger(t)

LedgerSpec == LedgerInit /\ [][LedgerNext]_vars

\* ================================================================ claims
\* the session whose handler this step ran: its form was submitted and the
\* rerun cleared it
Submitted(s, op, kind) ==
    /\ last'.op = op
    /\ form[s].kind = kind
    /\ form'[s] = NoForm

Unpaid(i) == \E r \in invoices : r.id = i /\ r.status = "unpaid"

\* ---- C1
\* C1: whenever RecordPayment on an unpaid invoice reports success, the
\* invoice is paid and exactly one new payment row exists that carries the
\* invoice's tenant_id and unit_id.
C1_RecordPaymentAllOrNothing ==
    [][\A s \in Sessions :
         (/\ Submitted(s, "RecordPayment", "pay")
          /\ "success" \in last'.msgs
          /\ Unpaid(form[s].inv))
         => \E r \in invoices' :
              /\ r.id = form[s].inv
              /\ r.status = "paid"
              /\ \E p \in payments' :
                   /\ p \notin payments
                   /\ payments' = payments \cup {p}
                   /\ p.tenant_id = r.tenant_id
                   /\ p.unit_id = r.unit_id]_vars

\* ---- C2
\* C2: in every reachable state a unit is occupied exactly when its
\* current_tenant_id is non-null and names an existing tenant row.
C2_OccupiedIffTenant ==
    \A i \in DOMAIN units :
        units[i].status = "occupied"
            <=> (units[i].tenant # NULL /\ units[i].tenant \in tenants)

\* a tenant was deleted (and a unit vacated by it) while another unit stays
\* occupied
C2_Witness ==
    /\ last.op = "DeleteTenant"
    /\ Cardinality(tenants) < nextTenant - 1
    /\ \E i, j \in DOMAIN units :
          units[i].status = "occupied" /\ units[j].status = "vacant"

\* ---- C3
\* C3: AssignTenant on a unit that is occupied when the handler runs reports
\* no success and leaves the units unchanged.
C3_AssignOccupiedFails ==
    [][\A s \in Sessions :
         (/\ Submitted(s, "AssignTenant", "assign")
          /\ units[form[s].unit].status = "occupied")
         => ("success" \notin last'.msgs /\ units' = units)]_vars

\* ---- C4
\* C4: DeleteTenant without cascade reports failure and keeps the tenant when
\* an invoice or payment references it, and reports success and removes the
\* tenant otherwise.
C4_DeleteWithHistoryFails ==
    [][\A s \in Sessions :
         DeleteTenant(s, FALSE)
         => LET d == form[s].tenant
                referenced == \/ \E r \in invoices : r.tenant_id = d
                              \/ \E r \in payments : r.tenant_id = d
            IN IF referenced
               THEN "success" \notin last'.msgs /\ d \in tenants'
               ELSE "success" \in last'.msgs /\ d \notin tenants']_vars

\* ---- C5
\* C5: a DeleteTenant after which the tenant row is still there has changed
\* nothing in the store.
C5_FailedDeleteChangesNothing ==
    [][\A s \in Sessions :
         (/\ Submitted(s, "DeleteTenant", "delete")
          /\ form[s].tenant \in tenants
          /\ form[s].tenant \in tenants')
         => (units' = units /\ invoices' = invoices /\ payments' = payments)]_vars

\* ---- C6
UniqueCodes ==
    \A i, j \in DOMAIN units : units[i].code = units[j].code => i = j

Val(ch) == ch - 48
ParseIso(str) ==
    << 1000 * Val(str[1]) + 100 * Val(str[2]) + 10 * Val(str[3]) + Val(str[4]),
       10 * Val(str[6]) + Val(str[7]),
       10 * Val(str[9]) + Val(str[10]) >>

NotAfter(d, e) ==
    \/ d[1] < e[1]
    \/ d[1] = e[1] /\ d[2] < e[2]
    \/ d[1] = e[1] /\ d[2] = e[2] /\ d[3] <= e[3]

RECURSIVE AmountSum(_)
AmountSum(S) ==
    IF S = {} THEN 0
    ELSE LET r == CHOOSE x \in S : TRUE IN r.amount + AmountSum(S \ {r})

NetUpTo(L, i) ==
    AmountSum({[id |-> k, amount |-> L[k].Debit - L[k].Credit] : k \in 1..i})

Shown(L, date, item, debit, credit) ==
    Cardinality({k \in DOMAIN L : /\ L[k].Date = date
                                  /\ L[k].Item = item
                                  /\ L[k].Debit = debit
                                  /\ L[k].Credit = credit})

\* C7: the ledger shown for a tenant has one debit line per invoice and one
\* credit line per payment of that tenant, in ascending date order, each
\* balance is the net of the lines up to it, and the total is
\* sum(debits) - sum(credits), the last balance, and 0 on an empty ledger.
C7_LedgerCorrect ==
    ledger.tenant # 0 =>
        LET L == ledger.lines
            invs == {r \in invoices : r.tenant_id = ledger.tenant}
            pays == {r \in payments : r.tenant_id = ledger.tenant}
        IN /\ Len(L) = Cardinality(invs) + Cardinality(pays)
           /\ \A r \in invs :
                Shown(L, r.due_date, r.description, r.amount, 0)
                  = Cardinality({q \in invs : /\ q.due_date = r.due_date
                                              /\ q.amount = r.amount})
           /\ \A r \in pays :
                Shown(L, r.date, "Payment Received", 0, r.amount)
                  = Cardinality({q \in pays : /\ q.date = r.date
                                              /\ q.amount = r.amount})
           /\ \A i, j \in DOMAIN L :
                i < j => NotAfter(ParseIso(L[i].Date), ParseIso(L[j].Date))
           /\ \A i \in DOMAIN L : L[i].Balance = NetUpTo(L, i)
           /\ ledger.total = AmountSum(invs) - AmountSum(pays)
           /\ L # << >> => ledger.total = L[Len(L)].Balance
           /\ (invs = {} /\ pays = {}) => (L = << >> /\ ledger.total = 0)

\* a ledger of three lines in which a payment precedes an invoice and the
\* 10th of the month follows the 6th
C7_Witness ==
    /\ ledger.tenant # 0
    /\ Len(ledger.lines) = 3
    /\ \E i, j \in DOMAIN ledger.lines :
          /\ i < j
          /\ ledger.lines[i].Credit > 0
          /\ ledger.lines[j].Debit > 0
          /\ ledger.lines[i].Date = IsoFormat(<<2024, 1, 6>>)
          /\ ledger.lines[j].Date = IsoFormat(<<2024, 1, 10>>)

\* ---- C8
\* C8: a successful RecordPayment of amount a dated d on an unpaid invoice
\* puts a credit line of a on d into the tenant's ledger; when the invoice of
\* amount a was the tenant's only row and d is after the due date, the ledger
\* is the debit line with balance a, the credit line with balance 0, total 0.
C8_PaymentSettlesLedger ==
    [][\A s \in Sessions, a \in Amounts, d \in Dates :
         (/\ RecordPayment(s, a, d)
          /\ "success" \in last'.msgs
          /\ Unpaid(form[s].inv))
         => LET r == CHOOSE x \in invoices : x.id = form[s].inv
                after == BuildLedger(r.tenant_id, invoices', payments')
                only == /\ {x \in invoices : x.tenant_id = r.tenant_id} = {r}
                        /\ {x \in payments : x.tenant_id = r.tenant_id} = {}
            IN /\ \E k \in DOMAIN after.lines :
                    /\ after.lines[k].Credit = a
                    /\ after.lines[k].Debit = 0
                    /\ after.lines[k].Date = IsoFormat(d)
               /\ (only /\ a = r.amount /\ StrLess(r.due_date, IsoFormat(d)))
                    => /\ after.total = 0
                       /\ after.lines =
                            <<[Date |-> r.due_date, Item |-> r.description,
                               Debit |-> a, Credit |-> 0, Balance |-> a],
                              [Date |-> IsoFormat(d),
                               Item |-> "Payment Received",
                               Debit |-> 0, Credit |-> a, Balance |-> 0]>>]_vars

\* ---- C9
\* C9: every invoice row inserted is for a unit that is occupied when the row
\* is inserted, by the tenant the row names.
C9_InvoiceForCurrentOccupant ==
    [][\A r \in invoices' \ invoices :
         last'.op = "CreateInvoice"
         => /\ units[r.unit_id].status = "occupied"
            /\ units[r.unit_id].tenant = r.tenant_id]_vars

\* ---- C10
\* C10: RecordPayment on an invoice that is already paid or no longer exists
\* reports no success and inserts no payment row.
C10_PayPaidInvoiceFails ==
    [][\A s \in Sessions :
         (/\ Submitted(s, "RecordPayment", "pay")
          /\ ~Unpaid(form[s].inv))
         => ("success" \notin last'.msgs /\ payments' = payments)]_vars

====
